---- MODULE Spec2Model ----
(***************************************************************************)
(* Model of src/main.py: the /process endpoint of the UVR processor.       *)
(*                                                                         *)
(* A request uploads a file and a lane string.  The handler process_audio  *)
(* persists the upload (save_upload_to_disk), separates it into stems and  *)
(* writes them (separate_stems), and, for a lane containing "acca", mixes  *)
(* the non-vocal stems into instrumental.wav.  It then turns the returned  *)
(* paths into entries with a /files/ url.                                  *)
(*                                                                         *)
(* Names are sequences of tokens (single characters, or a whole uuid), a   *)
(* path is a sequence of names, and a file's content is a header flag and  *)
(* a body of samples.  process_audio is an async function without an       *)
(* await, so a handler holds the event loop from its first line to its     *)
(* return or its exception: `loop` is the request that holds it.           *)
(***************************************************************************)
EXTENDS Integers, Sequences, FiniteSets, TLC

\* Bounds of the model.
MaxRequests == 2     \* requests submitted in one run
MaxLen == 2          \* longest uploaded waveform, in samples
MaxAmp == 1          \* samples range over -MaxAmp..MaxAmp

VARIABLES
    MODEL,    \* the module-level MODEL (main.py:32)
    fs,       \* regular files on disk: path -> content
    dirs,     \* directories on disk
    loop,     \* the request whose handler runs on the event loop, or 0
    req       \* per request: its inputs, the handler's position and locals

vars == <<MODEL, fs, dirs, loop, req>>

Reqs == 1..MaxRequests
Samples == (0 - MaxAmp)..MaxAmp
None == <<>>

\* ------------------------------------------------------------------------
\* Paths, names and urls
\* ------------------------------------------------------------------------

TEMP_DIR == << <<"temp">> >>

\* The "acca" of `if "acca" in lane`.
Marker == <<"a", "c", "c", "a">>

Max(S) == CHOOSE x \in S : \A y \in S : y <= x

Min2(a, b) == IF a <= b THEN a ELSE b

\* Python's `sub in s` on strings.
Contains(sub, s) ==
    \E i \in 0..(Len(s) - Len(sub)) : SubSeq(s, i + 1, i + Len(sub)) = sub

\* pathlib's PurePath.stem: the final component without its last suffix; a
\* leading or a trailing dot starts no suffix.
PathStem(path) ==
    LET name == path[Len(path)]
        dots == {i \in 1..Len(name) : name[i] = "."}
    IN  IF dots = {} THEN name
        ELSE LET i == Max(dots)
             IN  IF i > 1 /\ i < Len(name) THEN SubSeq(name, 1, i - 1) ELSE name

\* os.path.basename: the last component.
basename(path) == path[Len(path)]

\* f"/files/{os.path.basename(path)}"
UrlOf(path) == << <<"files">>, basename(path) >>

\* app.mount("/files", StaticFiles(directory=str(TEMP_DIR))): the file a url
\* is served from, None when the url is outside the mount.
Resolve(url) ==
    IF Len(url) >= 2 /\ url[1] = <<"files">> THEN TEMP_DIR \o Tail(url) ELSE None

\* ------------------------------------------------------------------------
\* Audio
\* ------------------------------------------------------------------------

Clamp(x) == IF x > MaxAmp THEN MaxAmp ELSE IF x < 0 - MaxAmp THEN 0 - MaxAmp ELSE x

\* A file is a header flag (a well-formed audio container or not) and a body.
WavFile(audio) == [hdr |-> TRUE, body |-> audio]

Decodable(content) == content.hdr

\* AudioSegment.from_wav of a decodable file.
from_wav(content) == content.body

\* A silence that is never shorter than one sample.
silent_one(duration) == [i \in 1..(duration + 1) |-> 0]

\* AudioSegment.silent(duration): `duration` samples of zero.
silent(duration) == [i \in 1..duration |-> 0]

\* seg1.overlay(seg2), position 0, no loop: seg2 is cut to the length of seg1
\* and added sample-wise (audioop.add saturates); the rest of seg1 is kept.
overlay(seg1, seg2) ==
    LET n == Min2(Len(seg1), Len(seg2))
    IN  [i \in 1..Len(seg1) |-> IF i <= n THEN Clamp(seg1[i] + seg2[i]) ELSE seg1[i]]

RECURSIVE OverlayAll(_, _)
\* for part in other_parts: acc = acc.overlay(part)
OverlayAll(acc, parts) ==
    IF parts = <<>> THEN acc
    ELSE OverlayAll(overlay(acc, Head(parts)), Tail(parts))

\* Lines 81-84: the mix starts from silence of duration 0.
instrumental_mix(parts) == OverlayAll(silent(0), parts)

\* apply_model is opaque and deterministic: source k of the model gets a
\* waveform of the input's length that depends on the input and on k.
apply_model(model, wav) ==
    [k \in 1..Len(model.sources) |->
        [i \in 1..Len(wav) |-> Clamp(wav[i] + k - 2)]]

\* ------------------------------------------------------------------------
\* Dictionaries (insertion ordered, as Python's): sequences of name/path
\* ------------------------------------------------------------------------

HasKey(d, k) == \E i \in 1..Len(d) : d[i].name = k

\* d.get(k)
DictGet(d, k) ==
    IF HasKey(d, k) THEN d[CHOOSE i \in 1..Len(d) : d[i].name = k].path ELSE None

\* d[k] = v
DictSet(d, k, v) ==
    IF HasKey(d, k)
    THEN [i \in 1..Len(d) |-> IF d[i].name = k THEN [name |-> k, path |-> v] ELSE d[i]]
    ELSE Append(d, [name |-> k, path |-> v])

\* ------------------------------------------------------------------------
\* Requests
\* ------------------------------------------------------------------------

EmptyUpload == [hdr |-> FALSE, body |-> <<>>]

\* A wave of n samples, alternating between the two extremes.
TestWave(n) == [i \in 1..n |-> IF i % 2 = 1 THEN MaxAmp ELSE 0 - MaxAmp]

\* What a client may upload: nothing, bytes that are no audio, or audio.
Uploads ==
    {EmptyUpload, [hdr |-> FALSE, body |-> TestWave(1)]}
        \cup {WavFile(TestWave(n)) : n \in 1..MaxLen}

\* upload.filename
Filenames == { <<"s", ".", "w">>, <<"s">> }

\* The lane form field: "", "acca", "xacca-1", "acc", "default".
Lanes ==
    { <<>>,
      <<"a", "c", "c", "a">>,
      <<"x", "a", "c", "c", "a", "-", "1">>,
      <<"a", "c", "c">>,
      <<"d", "e", "f", "a", "u", "l", "t">> }

\* model.sources of the model get_model returns: htdemucs's four sources,
\* and the vocabularies of other models.
Vocabularies ==
    { <<"drums", "bass", "other", "vocals">>,
      <<"vocals">>,
      <<"drums", "bass">> }

Ids == {"u" \o ToString(i) : i \in 1..MaxRequests}

NoResponse == [status |-> "none", stems |-> <<>>]

\* The locals of a handler that has not started.
FreshRequest ==
    [pc |-> "idle", filename |-> <<>>, lane |-> <<>>, upload |-> EmptyUpload,
     file_id |-> "", input_path |-> None, wav |-> <<>>, stems |-> <<>>,
     output_dir |-> None, stem_map |-> <<>>, i |-> 0, mix |-> <<>>,
     result |-> <<>>, response |-> NoResponse, err |-> "", cause |-> "",
     touched |-> {}]

Init ==
    /\ MODEL \in {[sources |-> v] : v \in Vocabularies}
    /\ fs = << >>
    /\ dirs = {TEMP_DIR}
    /\ loop = 0
    /\ req = [r \in Reqs |-> FreshRequest]

\* The file system after writing content c at path p.
WriteFile(f, p, c) == [q \in (DOMAIN f) \cup {p} |-> IF q = p THEN c ELSE f[q]]

\* A file id that may repeat an earlier one.
uuid4_reused(used) == Ids

\* str(uuid.uuid4()): a value no earlier call returned.
uuid4(used) == Ids \ used

UsedIds == {req[q].file_id : q \in Reqs} \ {""}

\* An error that carries the stems written before the exception.
ExceptionResponse_partial(stem_map) ==
    [status |-> "error",
     stems |-> [k \in 1..Len(stem_map) |->
                  [name |-> stem_map[k].name, path |-> stem_map[k].path,
                   url |-> UrlOf(stem_map[k].path)]]]

\* An exception leaves process_audio: the framework answers with one error
\* and no stems, whatever stem_map held.
ExceptionResponse(stem_map) == [status |-> "error", stems |-> <<>>]

\* The locals of r after an exception raised at `stage`.
Raised(r, stage, cause) ==
    [req[r] EXCEPT !.pc = "failed", !.err = stage, !.cause = cause,
                   !.response = ExceptionResponse(req[r].stem_map)]

\* The request arrives with its form fields; its handler is not yet running.
Submit(r) ==
    /\ req[r].pc = "idle"
    /\ \E fn \in Filenames, ln \in Lanes, up \in Uploads :
         req' = [req EXCEPT ![r].pc = "queued", ![r].filename = fn,
                            ![r].lane = ln, ![r].upload = up]
    /\ UNCHANGED <<MODEL, fs, dirs, loop>>

\* The event loop calls process_audio for a waiting request when it is free.
Start(r) ==
    /\ req[r].pc = "queued"
    /\ loop = 0
    /\ loop' = r
    /\ req' = [req EXCEPT ![r].pc = "save"]
    /\ UNCHANGED <<MODEL, fs, dirs>>

\* save_upload_to_disk
SaveUpload(r) ==
    /\ req[r].pc = "save"
    /\ loop = r
    /\ \E id \in uuid4(UsedIds), fault \in BOOLEAN :
         LET file_path == TEMP_DIR \o << <<id, "_">> \o req[r].filename >>
         IN  IF fault
             THEN /\ req' = [req EXCEPT ![r] = Raised(r, "save", "env")]
                  /\ loop' = 0
                  /\ fs' = fs
             ELSE /\ fs' = WriteFile(fs, file_path, req[r].upload)
                  /\ req' = [req EXCEPT ![r].pc = "load", ![r].file_id = id,
                                        ![r].input_path = file_path,
                                        ![r].touched = @ \cup {file_path}]
                  /\ loop' = loop
    /\ UNCHANGED <<MODEL, dirs>>

\* wav, sr = torchaudio.load(str(audio_path))
Load(r) ==
    /\ req[r].pc = "load"
    /\ loop = r
    /\ \E fault \in BOOLEAN :
         LET content == fs[req[r].input_path]
         IN  IF fault \/ ~Decodable(content)
             THEN /\ req' = [req EXCEPT ![r] =
                        [Raised(r, "load", IF Decodable(content) THEN "env" ELSE "decode")
                            EXCEPT !.touched = @ \cup {req[r].input_path}]]
                  /\ loop' = 0
             ELSE /\ req' = [req EXCEPT ![r].pc = "apply", ![r].wav = content.body,
                                        ![r].touched = @ \cup {req[r].input_path}]
                  /\ loop' = loop
    /\ UNCHANGED <<MODEL, fs, dirs>>

\* stems = apply_model(model, wav, sr, device="cpu")
ApplyModel(r) ==
    /\ req[r].pc = "apply"
    /\ loop = r
    /\ \E fault \in BOOLEAN :
         IF fault
         THEN /\ req' = [req EXCEPT ![r] = Raised(r, "apply", "env")]
              /\ loop' = 0
         ELSE /\ req' = [req EXCEPT ![r].pc = "mkdir",
                                    ![r].stems = apply_model(MODEL, req[r].wav)]
              /\ loop' = loop
    /\ UNCHANGED <<MODEL, fs, dirs>>

\* output_dir = TEMP_DIR / f"out_{audio_path.stem}"; output_dir.mkdir(exist_ok=True)
MkDir(r) ==
    /\ req[r].pc = "mkdir"
    /\ loop = r
    /\ \E fault \in BOOLEAN :
         LET output_dir == TEMP_DIR \o << <<"out_">> \o PathStem(req[r].input_path) >>
         IN  IF fault
             THEN /\ req' = [req EXCEPT ![r] = Raised(r, "mkdir", "env")]
                  /\ loop' = 0
                  /\ dirs' = dirs
             ELSE /\ dirs' = dirs \cup {output_dir}
                  /\ req' = [req EXCEPT ![r].pc = "write", ![r].output_dir = output_dir,
                                        ![r].i = 1,
                                        ![r].touched = @ \cup {output_dir}]
                  /\ loop' = loop
    /\ UNCHANGED <<MODEL, fs>>

\* A loop that stops one source early.
zip_len_short(sources, stems) == Min2(Len(sources), Len(stems)) - 1

\* zip(model.sources, stems) stops at the shorter of the two.
zip_len(sources, stems) == Min2(Len(sources), Len(stems))

\* One iteration of the loop over zip(model.sources, stems), lines 69-72.
WriteStem(r) ==
    /\ req[r].pc = "write"
    /\ loop = r
    /\ req[r].i <= zip_len(MODEL.sources, req[r].stems)
    /\ \E fault \in BOOLEAN :
         LET name == MODEL.sources[req[r].i]
             out_path == req[r].output_dir \o << <<name, ".wav">> >>
         IN  IF fault
             THEN /\ req' = [req EXCEPT ![r] = Raised(r, "write", "env")]
                  /\ loop' = 0
                  /\ fs' = fs
             ELSE /\ fs' = WriteFile(fs, out_path, WavFile(req[r].stems[req[r].i]))
                  /\ req' = [req EXCEPT ![r].stem_map = DictSet(@, name, out_path),
                                        ![r].i = @ + 1,
                                        ![r].touched = @ \cup {out_path}]
                  /\ loop' = loop
    /\ UNCHANGED <<MODEL, dirs>>

\* A test for the first three characters of the marker only.
IsAccaLane_acc(lane) == Contains(<<"a", "c", "c">>, lane)

\* if "acca" in lane
IsAccaLane(lane) == Contains(Marker, lane)

\* Line 75, after the loop: the ACCA branch is taken, or stem_map is returned.
Branch(r) ==
    /\ req[r].pc = "write"
    /\ loop = r
    /\ req[r].i > zip_len(MODEL.sources, req[r].stems)
    /\ IF IsAccaLane(req[r].lane)
       THEN req' = [req EXCEPT ![r].pc = "mix"]
       ELSE req' = [req EXCEPT ![r].pc = "assemble", ![r].result = req[r].stem_map]
    /\ UNCHANGED <<MODEL, fs, dirs, loop>>

\* other_parts = [p for n, p in stem_map.items() if n != "vocals"]
other_parts(stem_map) ==
    SelectSeq(stem_map, LAMBDA e : e.name # "vocals")

\* Lines 78-84: the non-vocal stem files are read back and overlaid.
Mix(r) ==
    /\ req[r].pc = "mix"
    /\ loop = r
    /\ \E fault \in BOOLEAN :
         LET parts == other_parts(req[r].stem_map)
             read == {parts[k].path : k \in 1..Len(parts)}
             segs == [k \in 1..Len(parts) |-> from_wav(fs[parts[k].path])]
         IN  IF fault /\ parts # <<>>
             THEN /\ req' = [req EXCEPT ![r] =
                        [Raised(r, "mix", "env") EXCEPT !.touched = @ \cup read]]
                  /\ loop' = 0
             ELSE /\ req' = [req EXCEPT ![r].pc = "export",
                                        ![r].mix = instrumental_mix(segs),
                                        ![r].touched = @ \cup read]
                  /\ loop' = loop
    /\ UNCHANGED <<MODEL, fs, dirs>>

\* A result that adds the instrumental to stem_map instead of replacing it.
ReductionResult_all(stem_map, inst_path) ==
    Append(stem_map, [name |-> "instrumental", path |-> inst_path])

\* return {"vocals": vocal_path, "instrumental": str(inst_path)}
ReductionResult(stem_map, inst_path) ==
    << [name |-> "vocals", path |-> DictGet(stem_map, "vocals")],
       [name |-> "instrumental", path |-> inst_path] >>

\* Lines 86-92: instrumental.wav is exported and the two entries returned.
Export(r) ==
    /\ req[r].pc = "export"
    /\ loop = r
    /\ \E fault \in BOOLEAN :
         LET inst_path == req[r].output_dir \o << <<"instrumental", ".wav">> >>
         IN  IF fault
             THEN /\ req' = [req EXCEPT ![r] = Raised(r, "export", "env")]
                  /\ loop' = 0
                  /\ fs' = fs
             ELSE /\ fs' = WriteFile(fs, inst_path, WavFile(req[r].mix))
                  /\ req' = [req EXCEPT ![r].pc = "assemble",
                                        ![r].result = ReductionResult(req[r].stem_map, inst_path),
                                        ![r].touched = @ \cup {inst_path}]
                  /\ loop' = loop
    /\ UNCHANGED <<MODEL, dirs>>

\* The list comprehension of lines 119-128.
StemEntries(result) ==
    [k \in 1..Len(result) |->
        [name |-> result[k].name, path |-> result[k].path, url |-> UrlOf(result[k].path)]]

\* Lines 119-130: os.path.basename(None) raises TypeError; otherwise the
\* response is built and returned, and the event loop is free again.
Assemble(r) ==
    /\ req[r].pc = "assemble"
    /\ loop = r
    /\ IF \E k \in 1..Len(req[r].result) : req[r].result[k].path = None
       THEN req' = [req EXCEPT ![r] = Raised(r, "assemble", "type")]
       ELSE req' = [req EXCEPT ![r].pc = "done",
                               ![r].response = [status |-> "ok",
                                                stems |-> StemEntries(req[r].result)]]
    /\ loop' = 0
    /\ UNCHANGED <<MODEL, fs, dirs>>

Next ==
    \E r \in Reqs :
        \/ Submit(r)
        \/ Start(r)
        \/ SaveUpload(r)
        \/ Load(r)
        \/ ApplyModel(r)
        \/ MkDir(r)
        \/ WriteStem(r)
        \/ Branch(r)
        \/ Mix(r)
        \/ Export(r)
        \/ Assemble(r)

Spec == Init /\ [][Next]_vars

\* ------------------------------------------------------------------------
\* Properties
\* ------------------------------------------------------------------------

SeqRange(s) == {s[k] : k \in 1..Len(s)}

\* The names of the entries r's response carries, in order.
ResponseNames(r) ==
    [k \in 1..Len(req[r].response.stems) |-> req[r].response.stems[k].name]

ResponsePaths(r) ==
    {req[r].response.stems[k].path : k \in 1..Len(req[r].response.stems)}

\* The file of stem `name` in r's output directory.
StemFile(r, name) == req[r].output_dir \o << <<name, ".wav">> >>

\* The files that exist in r's output directory.
OutFiles(r) ==
    IF req[r].output_dir = None THEN {}
    ELSE {p \in DOMAIN fs : Len(p) = 3 /\ SubSeq(p, 1, 2) = req[r].output_dir}

HasMarker(r) ==
    \E i \in 0..(Len(req[r].lane) - 4) :
        /\ req[r].lane[i + 1] = "a" /\ req[r].lane[i + 2] = "c"
        /\ req[r].lane[i + 3] = "c" /\ req[r].lane[i + 4] = "a"

Htdemucs == <<"drums", "bass", "other", "vocals">>

\* C1: a request that completes with a lane containing "acca", under a
\* vocabulary that includes "vocals", returns exactly the two entries vocals
\* and instrumental, and the vocals entry is the vocals stem file as the
\* separation wrote it.
C1_ReductionReturnsVocalsAndInstrumental ==
    \A r \in Reqs :
        (req[r].pc = "done" /\ HasMarker(r) /\ "vocals" \in SeqRange(MODEL.sources)) =>
            LET k == CHOOSE j \in 1..Len(MODEL.sources) : MODEL.sources[j] = "vocals"
                e == req[r].response.stems
            IN  /\ ResponseNames(r) = <<"vocals", "instrumental">>
                /\ e[1].path = StemFile(r, "vocals")
                /\ e[1].path \in DOMAIN fs
                /\ fs[e[1].path] = WavFile(req[r].stems[k])
                /\ e[2].path = StemFile(r, "instrumental")

C1_Witness ==
    \E r \in Reqs :
        /\ req[r].pc = "done"
        /\ HasMarker(r)
        /\ MODEL.sources = Htdemucs
        /\ Len(req[r].wav) >= 1

\* C2: a request that completes with a lane that does not contain "acca"
\* returns one entry per source of the model, in the model's order, each
\* with the file written for that stem; the reduction branch is taken if and
\* only if the lane contains the marker, and no lane makes a request fail.
C2_RawLaneIsIdentity ==
    \A r \in Reqs :
        /\ (req[r].pc = "done" /\ ~HasMarker(r)) =>
              /\ ResponseNames(r) = MODEL.sources
              /\ \A k \in 1..Len(MODEL.sources) :
                    LET e == req[r].response.stems[k]
                    IN  /\ e.path = StemFile(r, MODEL.sources[k])
                        /\ e.path \in DOMAIN fs
                        /\ fs[e.path] = WavFile(req[r].stems[k])
        /\ (req[r].pc \in {"mix", "export"} => HasMarker(r))
        /\ (req[r].pc \in {"assemble", "done"} =>
              (HasMarker(r) <=> StemFile(r, "instrumental") \in DOMAIN fs))
        /\ (req[r].pc = "failed" /\ ~HasMarker(r) => req[r].cause \in {"env", "decode"})

C2_Witness ==
    \E r \in Reqs :
        /\ req[r].pc = "done"
        /\ req[r].lane = <<"a", "c", "c">>
        /\ MODEL.sources = Htdemucs
        /\ Len(req[r].response.stems) = 4

\* C3: in a reduction lane over drums, bass, other and vocals of length N,
\* the instrumental has length N and is the clamped sample-wise sum of
\* drums, bass and other.
C3_SummationLaw ==
    \A r \in Reqs :
        (req[r].pc = "done" /\ HasMarker(r) /\ MODEL.sources = Htdemucs) =>
            LET inst == from_wav(fs[StemFile(r, "instrumental")])
                drums == from_wav(fs[StemFile(r, "drums")])
                bass == from_wav(fs[StemFile(r, "bass")])
                other == from_wav(fs[StemFile(r, "other")])
                N == Len(from_wav(fs[StemFile(r, "vocals")]))
            IN  /\ Len(inst) = N
                /\ \A i \in 1..N : inst[i] = Clamp(drums[i] + bass[i] + other[i])

C5_UrlServesTheFile ==
    \A r \in Reqs :
        req[r].pc = "done" =>
            \A k \in 1..Len(req[r].response.stems) :
                LET e == req[r].response.stems[k]
                IN  /\ Resolve(e.url) \in DOMAIN fs
                    /\ Resolve(e.url) = e.path

\* C6: two requests never touch (read, write or create) a common file or
\* directory under temp, no file one of them touches lies in the other's
\* output directory, every returned path is a file the returning request
\* wrote in its own output directory, and neither the path nor the resolved
\* url of an entry is a file or directory the other request touched.
C6_RequestIsolation ==
    \A r \in Reqs : \A q \in Reqs \ {r} :
        /\ req[r].touched \cap req[q].touched = {}
        /\ \A p \in req[r].touched :
              (Len(p) = 3 /\ req[q].output_dir # None) => SubSeq(p, 1, 2) # req[q].output_dir
        /\ \A k \in 1..Len(req[r].response.stems) :
              LET e == req[r].response.stems[k]
              IN  /\ e.path \in req[r].touched
                  /\ SubSeq(e.path, 1, 2) = req[r].output_dir
                  /\ e.path \notin req[q].touched
                  /\ Resolve(e.url) \notin req[q].touched

C6_Witness ==
    \E r \in Reqs : \E q \in Reqs \ {r} :
        /\ req[r].pc = "done" /\ req[q].pc = "done"
        /\ req[r].filename = req[q].filename
        /\ req[r].lane = req[q].lane
        /\ req[r].upload # req[q].upload

\* What a completed request of r's lane has to return under MODEL.
ExpectedNames(r) ==
    IF HasMarker(r) THEN <<"vocals", "instrumental">> ELSE MODEL.sources

\* The response of r is nothing yet, one error without stems, or the whole
\* list of its lane with every file on disk.
AllOrNothing(r) ==
    /\ req[r].response.status \in {"none", "ok", "error"}
    /\ (req[r].response.status = "none" <=> req[r].pc \notin {"done", "failed"})
    /\ (req[r].response.status = "error" <=> req[r].pc = "failed")
    /\ (req[r].response.status # "ok" => req[r].response.stems = <<>>)
    /\ (req[r].response.status = "ok" =>
          /\ ResponseNames(r) = ExpectedNames(r)
          /\ \A k \in 1..Len(ExpectedNames(r)) :
                LET e == req[r].response.stems[k]
                IN  /\ e.path = StemFile(r, ExpectedNames(r)[k])
                    /\ e.path \in DOMAIN fs
                    /\ e.url = << <<"files">>, <<ExpectedNames(r)[k], ".wav">> >>)

\* C7: whatever stage fails, a request answers with the complete list of its
\* lane or with a single error and no stems, never with a part of the list;
\* no step changes MODEL, and what a completed request returns depends on
\* its own lane and output directory only, not on the requests before it.
C7_AllOrNothing ==
    /\ [](\A r \in Reqs : AllOrNothing(r))
    /\ [][MODEL' = MODEL]_vars

C7_Witness ==
    \E r \in Reqs : \E q \in Reqs \ {r} :
        /\ req[r].pc = "failed" /\ req[r].err = "write" /\ req[r].i = 3
        /\ req[q].pc = "done"
        /\ OutFiles(r) # {}

\* C8: a zero-byte upload is rejected while the upload is persisted, before
\* any decoding, and leaves no output directory and no output file.
C8_EmptyUploadRejectedAtSave ==
    \A r \in Reqs :
        (req[r].pc # "idle" /\ req[r].upload = EmptyUpload) =>
            /\ req[r].pc \in {"queued", "save", "failed"}
            /\ (req[r].pc = "failed" => req[r].err = "save")
            /\ req[r].output_dir = None
            /\ OutFiles(r) = {}

\* C9: while one request is inside apply_model, the handler of another
\* request that is waiting can be started.
C9_NoHeadOfLineBlocking ==
    \A r \in Reqs : \A q \in Reqs \ {r} :
        (req[r].pc = "apply" /\ req[q].pc = "queued") => ENABLED Start(q)

SourceFiles(r, n) == {StemFile(r, MODEL.sources[k]) : k \in 1..n}

====
